---- MODULE Spec2Model ----
(***************************************************************************)
(* Model of the system-cnf crate (src/system-cnf/src/lib.rs): the parser   *)
(* SystemCnf::parse and the serializer Display for SystemCnf of the        *)
(* PlayStation 2 SYSTEM.CNF file.                                          *)
(*                                                                         *)
(* A text is a sequence of characters, each character a one-character      *)
(* string.  An Option is the empty sequence (None) or a one-element        *)
(* sequence (Some); a Result is a record with the field ok.                *)
(***************************************************************************)
EXTENDS Naturals, Sequences, FiniteSets

VARIABLES raw_cnf, pc, lines, line, elf_path, version, video_mode,
          hdd_unit_power, ret, out

vars == <<raw_cnf, pc, lines, line, elf_path, version, video_mode,
          hdd_unit_power, ret, out>>

(***************************************************************************)
(* Option and Result                                                       *)
(***************************************************************************)
None == <<>>

Some(x) == <<x>>

IsSome(o) == o # <<>>

Unwrap(o) == o[1]

Ok(v) == [ok |-> TRUE, val |-> v]

Err(e) == [ok |-> FALSE, err |-> e]

\* enum Error
MalformedFile == "MalformedFile"

MissingField == "MissingField"

UnknownVideoMode == "UnknownVideoMode"

\* enum VideoMode
Ntsc == "Ntsc"

Pal == "Pal"

VideoMode == {Ntsc, Pal}

(***************************************************************************)
(* Characters and the string literals of the source                        *)
(***************************************************************************)
CR == "\r"

LF == "\n"

TAB == "\t"

SPC == " "

EQ == "="

CRLF == <<CR, LF>>

\* the characters of the model's alphabet that char::is_whitespace accepts
WhiteSpace == {SPC, TAB, CR, LF}

STR_NTSC == <<"N", "T", "S", "C">>

STR_PAL == <<"P", "A", "L">>

STR_BOOT2 == <<"B", "O", "O", "T", "2">>

STR_VER == <<"V", "E", "R">>

STR_VMODE == <<"V", "M", "O", "D", "E">>

STR_HDDUNITPOWER == <<"H", "D", "D", "U", "N", "I", "T", "P", "O", "W", "E", "R">>

STR_SUFFIX == <<";", "1">>

STR_SEP == <<SPC, EQ, SPC>>

(***************************************************************************)
(* The std string functions the parser calls, by what they do              *)
(***************************************************************************)
\* position of the first c in s, 0 when there is none
IndexOf(s, c) ==
    IF \E i \in 1..Len(s) : s[i] = c
    THEN CHOOSE i \in 1..Len(s) : s[i] = c /\ \A j \in 1..(i - 1) : s[j] # c
    ELSE 0

DropFirst(s, n) == SubSeq(s, n + 1, Len(s))

\* str::splitn(2, c) in the place of str::split(c): the second segment is
\* all that follows the first c
Split_n2(s, c) ==
    LET i == IndexOf(s, c)
    IN  IF i = 0 THEN <<s>> ELSE <<SubSeq(s, 1, i - 1), DropFirst(s, i)>>

\* str::split(c), all the segments the iterator yields
RECURSIVE Split(_, _)
Split(s, c) ==
    LET i == IndexOf(s, c)
    IN  IF i = 0 THEN <<s>>
        ELSE <<SubSeq(s, 1, i - 1)>> \o Split(DropFirst(s, i), c)

\* str::trim_start
RECURSIVE TrimStart(_)
TrimStart(s) ==
    IF s # <<>> /\ Head(s) \in WhiteSpace THEN TrimStart(Tail(s)) ELSE s

\* str::trim_end
RECURSIVE TrimEnd(_)
TrimEnd(s) ==
    IF s # <<>> /\ s[Len(s)] \in WhiteSpace
    THEN TrimEnd(SubSeq(s, 1, Len(s) - 1))
    ELSE s

\* str::trim
Trim(s) == TrimEnd(TrimStart(s))

EndsWith(s, suffix) ==
    /\ Len(s) >= Len(suffix)
    /\ SubSeq(s, Len(s) - Len(suffix) + 1, Len(s)) = suffix

\* str::strip_suffix
StripSuffix(s, suffix) ==
    IF EndsWith(s, suffix)
    THEN Some(SubSeq(s, 1, Len(s) - Len(suffix)))
    ELSE None

\* Option::unwrap_or
UnwrapOr(o, d) == IF IsSome(o) THEN Unwrap(o) ELSE d

\* str::split_inclusive('\n'): every piece keeps its line feed
RECURSIVE SplitInclusive(_)
SplitInclusive(s) ==
    IF s = <<>> THEN <<>>
    ELSE LET i == IndexOf(s, LF)
         IN  IF i = 0 THEN <<s>>
             ELSE <<SubSeq(s, 1, i)>> \o SplitInclusive(DropFirst(s, i))

\* one piece without its "\n" or "\r\n"; a "\r" not before "\n" stays
StripLineEnding(l) ==
    LET a == StripSuffix(l, <<LF>>)
    IN  IF ~IsSome(a) THEN l
        ELSE UnwrapOr(StripSuffix(Unwrap(a), <<CR>>), Unwrap(a))

\* str::lines
Lines(s) ==
    LET ps == SplitInclusive(s)
    IN  [i \in 1..Len(ps) |-> StripLineEnding(ps[i])]

(***************************************************************************)
(* VideoMode                                                               *)
(***************************************************************************)
as_str(v) == IF v = Ntsc THEN STR_NTSC ELSE STR_PAL

\* from_str matching on s in the place of s.trim()
from_str_no_trim(s) ==
    IF s = STR_NTSC THEN Ok(Ntsc)
    ELSE IF s = STR_PAL THEN Ok(Pal)
    ELSE Err(UnknownVideoMode)

from_str(s) ==
    LET t == Trim(s)
    IN  IF t = STR_NTSC THEN Ok(Ntsc)
        ELSE IF t = STR_PAL THEN Ok(Pal)
        ELSE Err(UnknownVideoMode)

(***************************************************************************)
(* SystemCnf::parse                                                        *)
(***************************************************************************)
\* the four locals of parse before the loop
NoFields ==
    [elf_path |-> None, version |-> None, video_mode |-> None,
     hdd_unit_power |-> None]

\* str::trim_end_matches(";1") in the place of strip_suffix(";1")
RECURSIVE TrimEndMatches(_, _)
TrimEndMatches(s, suffix) ==
    IF EndsWith(s, suffix)
    THEN TrimEndMatches(SubSeq(s, 1, Len(s) - Len(suffix)), suffix)
    ELSE s

Boot2Path_strip_all(value) == TrimEndMatches(Trim(value), STR_SUFFIX)

\* the BOOT2 arm: trim, then strip one ";1"
Boot2Path(value) ==
    LET path == Trim(value)
    IN  UnwrapOr(StripSuffix(path, STR_SUFFIX), path)

\* the match with `if let Ok(m) = value.parse() { video_mode = Some(m) }`
\* as its VMODE arm
Dispatch_ignore_bad_mode(f, key, value) ==
    LET k == Trim(key)
    IN  IF k = STR_BOOT2
        THEN Ok([f EXCEPT !.elf_path = Some(Boot2Path(value))])
        ELSE IF k = STR_VER
        THEN Ok([f EXCEPT !.version = Some(Trim(value))])
        ELSE IF k = STR_VMODE
        THEN LET m == from_str(value)
             IN  IF m.ok
                 THEN Ok([f EXCEPT !.video_mode = Some(m.val)])
                 ELSE Ok(f)
        ELSE IF k = STR_HDDUNITPOWER
        THEN Ok([f EXCEPT !.hdd_unit_power = Some(Trim(value))])
        ELSE Ok(f)

\* the match on the trimmed key
Dispatch(f, key, value) ==
    LET k == Trim(key)
    IN  IF k = STR_BOOT2
        THEN Ok([f EXCEPT !.elf_path = Some(Boot2Path(value))])
        ELSE IF k = STR_VER
        THEN Ok([f EXCEPT !.version = Some(Trim(value))])
        ELSE IF k = STR_VMODE
        THEN LET m == from_str(value)
             IN  IF m.ok
                 THEN Ok([f EXCEPT !.video_mode = Some(m.val)])
                 ELSE Err(m.err)
        ELSE IF k = STR_HDDUNITPOWER
        THEN Ok([f EXCEPT !.hdd_unit_power = Some(Trim(value))])
        ELSE Ok(f)

\* the loop body with `if line.is_empty() { continue; }` before the split
LoopBody_skip_empty(f, l) ==
    LET kv_iter == Split(l, EQ)
    IN  IF l = <<>> THEN Ok(f)
        ELSE IF Len(kv_iter) < 2 THEN Err(MalformedFile)
        ELSE Dispatch(f, kv_iter[1], kv_iter[2])

\* the loop body with `_ => return Err(Error::MalformedFile)` as the last arm
LoopBody_reject_unknown(f, l) ==
    LET kv_iter == Split(l, EQ)
    IN  IF Len(kv_iter) < 2 THEN Err(MalformedFile)
        ELSE IF Trim(kv_iter[1]) \notin
                {STR_BOOT2, STR_VER, STR_VMODE, STR_HDDUNITPOWER}
        THEN Err(MalformedFile)
        ELSE Dispatch(f, kv_iter[1], kv_iter[2])

\* the body of the loop for one line: Err(e) when the line makes parse
\* return, Ok(f) with the locals after the line otherwise.  split yields at
\* least one segment, so only the second next() can fail
LoopBody(f, l) ==
    LET kv_iter == Split(l, EQ)
    IN  IF Len(kv_iter) < 2 THEN Err(MalformedFile)
        ELSE Dispatch(f, kv_iter[1], kv_iter[2])

\* the struct expression with version.unwrap_or_default()
Finish_default_version(f) ==
    IF IsSome(f.elf_path) /\ IsSome(f.video_mode)
    THEN Ok([elf_path |-> Unwrap(f.elf_path),
             version |-> UnwrapOr(f.version, <<>>),
             video_mode |-> Unwrap(f.video_mode),
             hdd_unit_power |-> f.hdd_unit_power])
    ELSE Err(MissingField)

\* the struct expression after the loop
Finish(f) ==
    IF IsSome(f.elf_path) /\ IsSome(f.version) /\ IsSome(f.video_mode)
    THEN Ok([elf_path |-> Unwrap(f.elf_path),
             version |-> Unwrap(f.version),
             video_mode |-> Unwrap(f.video_mode),
             hdd_unit_power |-> f.hdd_unit_power])
    ELSE Err(MissingField)

\* the loop over the lines not yet taken
RECURSIVE ParseLoop(_, _)
ParseLoop(f, ls) ==
    IF ls = <<>> THEN Finish(f)
    ELSE LET r == LoopBody(f, Head(ls))
         IN  IF r.ok THEN ParseLoop(r.val, Tail(ls)) ELSE r

\* SystemCnf::parse as a function of the text
parse(text) == ParseLoop(NoFields, Lines(text))

(***************************************************************************)
(* Display for SystemCnf                                                   *)
(***************************************************************************)
\* fmt with "\n" in the place of "\r\n"
fmt_lf(r) ==
    STR_BOOT2 \o STR_SEP \o r.elf_path \o STR_SUFFIX \o <<LF>>
    \o STR_VER \o STR_SEP \o r.version \o <<LF>>
    \o STR_VMODE \o STR_SEP \o as_str(r.video_mode) \o <<LF>>
    \o (IF IsSome(r.hdd_unit_power)
        THEN STR_HDDUNITPOWER \o STR_SEP \o Unwrap(r.hdd_unit_power) \o <<LF>>
        ELSE <<>>)

\* fmt with "BOOT2 = {}\r\n", the ";1" left out
fmt_no_suffix(r) ==
    STR_BOOT2 \o STR_SEP \o r.elf_path \o CRLF
    \o STR_VER \o STR_SEP \o r.version \o CRLF
    \o STR_VMODE \o STR_SEP \o as_str(r.video_mode) \o CRLF
    \o (IF IsSome(r.hdd_unit_power)
        THEN STR_HDDUNITPOWER \o STR_SEP \o Unwrap(r.hdd_unit_power) \o CRLF
        ELSE <<>>)

fmt(r) ==
    STR_BOOT2 \o STR_SEP \o r.elf_path \o STR_SUFFIX \o CRLF
    \o STR_VER \o STR_SEP \o r.version \o CRLF
    \o STR_VMODE \o STR_SEP \o as_str(r.video_mode) \o CRLF
    \o (IF IsSome(r.hdd_unit_power)
        THEN STR_HDDUNITPOWER \o STR_SEP \o Unwrap(r.hdd_unit_power) \o CRLF
        ELSE <<>>)

(***************************************************************************)
(* The texts handed to parse                                               *)
(***************************************************************************)
\* most lines of a general text
MaxLines == 4

\* a line "KEY = VALUE"
KeyValue(k, v) == k \o STR_SEP \o v

\* the lines general texts are made of
LineSet ==
    { KeyValue(STR_BOOT2, <<"a">> \o STR_SUFFIX),
      \* padded key and value, no suffix before the second separator
      <<SPC>> \o STR_BOOT2 \o <<EQ, TAB, "b", SPC, EQ, "c">> \o STR_SUFFIX,
      KeyValue(STR_VER, <<"1">>),
      STR_VMODE \o <<EQ, TAB>> \o STR_PAL \o <<SPC>>,
      KeyValue(STR_VMODE, <<"n", "t", "s", "c">>),
      KeyValue(STR_HDDUNITPOWER, <<"1">>),
      KeyValue(<<"b", "o", "o", "t", "2">>, <<"d">>),
      <<>>,
      <<"j", "u", "n", "k">> }

\* the lines ls, each followed by the terminator t
RECURSIVE Terminated(_, _)
Terminated(ls, t) ==
    IF ls = <<>> THEN <<>> ELSE Head(ls) \o t \o Terminated(Tail(ls), t)

\* the lines ls with mixed line endings: CRLF after the n-th line when n is
\* odd, LF when it is even, none after the last
RECURSIVE Mixed(_, _)
Mixed(ls, n) ==
    IF ls = <<>> THEN <<>>
    ELSE IF Len(ls) = 1 THEN Head(ls)
    ELSE Head(ls) \o (IF n % 2 = 1 THEN CRLF ELSE <<LF>>)
         \o Mixed(Tail(ls), n + 1)

GeneralTexts ==
    { Mixed(ls, 1) : ls \in UNION { [1..n -> LineSet] : n \in 0..MaxLines } }

\* the values of the text fields of a record
PathValues ==
    { <<"a">>, <<"a">> \o STR_SUFFIX, <<>>, <<"a", EQ, "b">>, <<SPC, "a">>,
      <<"a", SPC>> }

TextValues ==
    { <<"1">>, <<>>, <<"1", EQ, "2">>, <<SPC, "1">>, <<"1", TAB>>, STR_SUFFIX }

Records ==
    [elf_path : PathValues, version : TextValues, video_mode : VideoMode,
     hdd_unit_power : {None} \cup { Some(v) : v \in TextValues }]

\* the canonical layout, written out field by field
Canonical(r) ==
    Terminated(
        <<KeyValue(STR_BOOT2, r.elf_path \o STR_SUFFIX),
          KeyValue(STR_VER, r.version),
          KeyValue(STR_VMODE, IF r.video_mode = Ntsc THEN STR_NTSC ELSE STR_PAL)>>
        \o (IF IsSome(r.hdd_unit_power)
            THEN <<KeyValue(STR_HDDUNITPOWER, Unwrap(r.hdd_unit_power))>>
            ELSE <<>>),
        CRLF)

CanonicalTexts == { Canonical(r) : r \in Records }

\* strings handed to VideoMode::from_str: a name or a near miss, padded
ModeCores ==
    { STR_NTSC, STR_PAL, <<"n", "t", "s", "c">>, <<"P", "a", "l">>,
      <<"N", "T", "S">>, STR_PAL \o <<"L">>, <<"N", SPC, "T", "S", "C">>,
      STR_NTSC \o STR_PAL, <<>> }

ModePads == { <<>>, <<SPC>>, <<TAB, SPC>> }

ModeStrings == { a \o c \o b : a \in ModePads, b \in ModePads, c \in ModeCores }

VideoModeTexts ==
    { Terminated(<<KeyValue(STR_BOOT2, <<"a">> \o STR_SUFFIX),
                   KeyValue(STR_VER, <<"1">>),
                   STR_VMODE \o <<EQ>> \o m>>, CRLF) : m \in ModeStrings }

Texts == GeneralTexts \cup CanonicalTexts \cup VideoModeTexts

(***************************************************************************)
(* The state machine: a call of parse, line by line, then to_string        *)
(***************************************************************************)
Fields ==
    [elf_path |-> elf_path, version |-> version, video_mode |-> video_mode,
     hdd_unit_power |-> hdd_unit_power]

\* parse has been entered with a text: its locals are None and the iterator
\* stands before the first line
Init ==
    /\ raw_cnf \in Texts
    /\ pc = "loop"
    /\ lines = Lines(raw_cnf)
    /\ line = None
    /\ elf_path = NoFields.elf_path
    /\ version = NoFields.version
    /\ video_mode = NoFields.video_mode
    /\ hdd_unit_power = NoFields.hdd_unit_power
    /\ ret = None
    /\ out = None

\* the turn of the loop with the error of a line dropped and the scan going on
ParseLine_keep_going ==
    /\ pc = "loop"
    /\ lines # <<>>
    /\ line' = Some(Head(lines))
    /\ lines' = Tail(lines)
    /\ LET r == LoopBody(Fields, Head(lines))
       IN  IF r.ok
           THEN /\ elf_path' = r.val.elf_path
                /\ version' = r.val.version
                /\ video_mode' = r.val.video_mode
                /\ hdd_unit_power' = r.val.hdd_unit_power
                /\ UNCHANGED <<pc, ret>>
           ELSE /\ ret' = Some(r)
                /\ UNCHANGED <<pc, elf_path, version, video_mode,
                               hdd_unit_power>>
    /\ UNCHANGED <<raw_cnf, out>>

\* one turn of the loop: the next line is taken and dispatched on its key;
\* an error returns from parse at once
ParseLine ==
    /\ pc = "loop"
    /\ lines # <<>>
    /\ line' = Some(Head(lines))
    /\ lines' = Tail(lines)
    /\ LET r == LoopBody(Fields, Head(lines))
       IN  IF r.ok
           THEN /\ elf_path' = r.val.elf_path
                /\ version' = r.val.version
                /\ video_mode' = r.val.video_mode
                /\ hdd_unit_power' = r.val.hdd_unit_power
                /\ UNCHANGED <<pc, ret>>
           ELSE /\ pc' = "returned"
                /\ ret' = Some(r)
                /\ UNCHANGED <<elf_path, version, video_mode, hdd_unit_power>>
    /\ UNCHANGED <<raw_cnf, out>>

\* the iterator is exhausted: the record is built or a field is missing
ParseReturn ==
    /\ pc = "loop"
    /\ lines = <<>>
    /\ pc' = "returned"
    /\ ret' = Some(Finish(Fields))
    /\ UNCHANGED <<raw_cnf, lines, line, elf_path, version, video_mode,
                   hdd_unit_power, out>>

\* to_string of the record parse returned
ToString ==
    /\ pc = "returned"
    /\ Unwrap(ret).ok
    /\ pc' = "formatted"
    /\ out' = Some(fmt(Unwrap(ret).val))
    /\ UNCHANGED <<raw_cnf, lines, line, elf_path, version, video_mode,
                   hdd_unit_power, ret>>

Next == ParseLine \/ ParseReturn \/ ToString

Spec == Init /\ [][Next]_vars

(***************************************************************************)
(* What the claims speak of, read off the text and the lines themselves    *)
(***************************************************************************)
AllLines == Lines(raw_cnf)

\* how many lines the loop has taken
Taken == Len(AllLines) - Len(lines)

EqPositions(l) == { i \in 1..Len(l) : l[i] = EQ }

HasEq(l) == EqPositions(l) # {}

Least(S) == CHOOSE x \in S : \A y \in S : x <= y

FirstEq(l) == Least(EqPositions(l))

\* where the value stops: before the second "=", or at the end of the line
ValueEnd(l) ==
    IF Cardinality(EqPositions(l)) >= 2
    THEN Least(EqPositions(l) \ {FirstEq(l)}) - 1
    ELSE Len(l)

KeyText(l) == Trim(SubSeq(l, 1, FirstEq(l) - 1))

RawValue(l) == SubSeq(l, FirstEq(l) + 1, ValueEnd(l))

ValueText(l) == Trim(RawValue(l))

KnownKeys == {STR_BOOT2, STR_VER, STR_VMODE, STR_HDDUNITPOWER}

RequiredKeys == {STR_BOOT2, STR_VER, STR_VMODE}

ModeNames == {STR_NTSC, STR_PAL}

HasKey(l, k) == HasEq(l) /\ KeyText(l) = k

BadMode(l) == HasKey(l, STR_VMODE) /\ ValueText(l) \notin ModeNames

Offending(l) == ~HasEq(l) \/ BadMode(l)

KeysOf(ls) == { KeyText(ls[i]) : i \in { j \in 1..Len(ls) : HasEq(ls[j]) } }

IsPrefix(p, s) == Len(p) <= Len(s) /\ SubSeq(s, 1, Len(p)) = p

Returned == ret # None

Result == Unwrap(ret)

RECURSIVE Concat(_)
Concat(ss) == IF ss = <<>> THEN <<>> ELSE Head(ss) \o Concat(Tail(ss))

\* the text with its i-th line, terminator included, taken out
TextWithout(i) ==
    LET ps == SplitInclusive(raw_cnf)
    IN  Concat(SubSeq(ps, 1, i - 1) \o SubSeq(ps, i + 1, Len(ps)))

NoChar(s, c) == \A i \in 1..Len(s) : s[i] # c

(***************************************************************************)
(* C1  Round trip                                                          *)
(***************************************************************************)
AllParsedAndReproduced ==
    /\ Returned => Result.ok
    /\ out # None => Unwrap(out) = raw_cnf

\* C1 as claimed: every text in the canonical layout is parsed and formatting
\* the record gives the text back, whatever the values of its fields.
C1_RoundTripEveryCanonical ==
    AllParsedAndReproduced \/ raw_cnf \notin CanonicalTexts

\* a value that a line of the layout gives back: no "=", no line feed, and
\* no white space at an end where trim would take it
CleanText(v) == Trim(v) = v /\ NoChar(v, EQ) /\ NoChar(v, LF)

CleanPath(v) == TrimStart(v) = v /\ NoChar(v, EQ) /\ NoChar(v, LF)

CleanRecords ==
    { r \in Records :
        /\ CleanPath(r.elf_path)
        /\ CleanText(r.version)
        /\ IsSome(r.hdd_unit_power) => CleanText(Unwrap(r.hdd_unit_power)) }

CleanCanonicalTexts == { Canonical(r) : r \in CleanRecords }

\* C1 amended: a text in the canonical layout whose field values hold no "="
\* and no line feed, whose path does not start with white space and whose
\* version and power flag neither start nor end with white space, is parsed
\* and formatting the record gives the text back, character for character.
C1_RoundTripCleanCanonical ==
    AllParsedAndReproduced \/ raw_cnf \notin CleanCanonicalTexts

C1_Witness ==
    /\ pc = "formatted"
    /\ IsSome(hdd_unit_power)
    /\ Unwrap(elf_path) # <<>>
    /\ Unwrap(out) = raw_cnf
    /\ raw_cnf \in CleanCanonicalTexts

(***************************************************************************)
(* C2  Empty lines                                                         *)
(***************************************************************************)
\* C2 as claimed: an empty line is skipped; MalformedFile is returned only
\* when the line that lacks "=" is not empty.
C2_EmptyLineSkipped ==
    ret = Some(Err(MalformedFile)) => Unwrap(line) # <<>>

\* C2 amended: every line is processed, an empty one too: the empty line has
\* no "=" and parse returns MalformedFile on taking it; MalformedFile is
\* returned only when the line taken last, empty or not, has no "=".
C2_EmptyLineMalformed ==
    /\ line = Some(<<>>) => ret = Some(Err(MalformedFile))
    /\ ret = Some(Err(MalformedFile)) => ~HasEq(Unwrap(line))

\* an empty line between two KEY = VALUE lines has been taken
C2_Witness ==
    /\ line = Some(<<>>)
    /\ ret = Some(Err(MalformedFile))
    /\ Taken >= 2
    /\ HasEq(AllLines[Taken - 1])
    /\ lines # <<>>
    /\ HasEq(Head(lines))

(***************************************************************************)
(* C3  Missing fields                                                      *)
(***************************************************************************)
\* C3: when every line is well formed (it has "=", and a VMODE line names a
\* video mode) and one of BOOT2, VER, VMODE is the key of no line, parse
\* returns MissingField; a record is returned only with elf_path, version and
\* video_mode all set, and it holds them; hdd_unit_power may be None, and is
\* when no line has the key HDDUNITPOWER.
C3_MissingField ==
    Returned =>
        LET all == AllLines
            keys == KeysOf(all)
        IN  /\ ( /\ \A i \in 1..Len(all) : ~Offending(all[i])
                 /\ \E k \in RequiredKeys : k \notin keys )
               => Result = Err(MissingField)
            /\ Result.ok =>
                 /\ RequiredKeys \subseteq keys
                 /\ elf_path = Some(Result.val.elf_path)
                 /\ version = Some(Result.val.version)
                 /\ video_mode = Some(Result.val.video_mode)
                 /\ Result.val.hdd_unit_power = hdd_unit_power
                 /\ STR_HDDUNITPOWER \notin keys => hdd_unit_power = None

\* only VER is missing, and the optional field is there
C3_Witness ==
    /\ ret = Some(Err(MissingField))
    /\ KeysOf(AllLines) = KnownKeys \ {STR_VER}

(***************************************************************************)
(* C4  Lines without "="                                                   *)
(***************************************************************************)
\* C4 as claimed: a text with a line without "=" yields MalformedFile (stated
\* here of the lines that are not empty, which every reading of the claim
\* covers).
C4_AnyLineWithoutEq ==
    ( /\ Returned
      /\ LET all == AllLines
         IN  \E i \in 1..Len(all) : all[i] # <<>> /\ ~HasEq(all[i]) )
    => Result = Err(MalformedFile)

\* C4 amended: a text with a line without "=" yields MalformedFile unless a
\* line before the first such line is a VMODE line whose value names no
\* video mode; then it yields UnknownVideoMode.
C4_LineWithoutEq ==
    Returned =>
        LET all == AllLines
            without == { j \in 1..Len(all) : ~HasEq(all[j]) }
        IN  without # {} =>
              IF \E j \in 1..(Least(without) - 1) : BadMode(all[j])
              THEN Result = Err(UnknownVideoMode)
              ELSE Result = Err(MalformedFile)

\* a line that is not empty and not the first makes parse return
C4_Witness ==
    /\ ret = Some(Err(MalformedFile))
    /\ Taken >= 3
    /\ Unwrap(line) # <<>>
    /\ lines # <<>>

(***************************************************************************)
(* C5  Unknown keys                                                        *)
(***************************************************************************)
UnknownKeyLines ==
    LET all == AllLines
    IN  { i \in 1..Len(all) : HasEq(all[i]) /\ KeyText(all[i]) \notin KnownKeys }

\* C5: when the text without a line of unknown key decodes to a record, the
\* text with that line decodes to the same record.
C5_UnknownKeyIgnored ==
    Returned =>
        \A i \in UnknownKeyLines :
            LET without == parse(TextWithout(i))
            IN  without.ok => Result = without

\* a record is returned for a text that has a line of unknown key after the
\* BOOT2 line
C5_Witness ==
    /\ Returned
    /\ Result.ok
    /\ LET all == AllLines
       IN  \E i \in UnknownKeyLines :
             \E j \in 1..(i - 1) : HasKey(all[j], STR_BOOT2)

(***************************************************************************)
(* C6  The ";1" suffix                                                     *)
(***************************************************************************)
\* C6: after a BOOT2 line is taken, elf_path is its trimmed value less one
\* trailing ";1", or the trimmed value itself when it has no such suffix; the
\* output starts with "BOOT2 = ", the stored path, ";1" and CRLF whether or
\* not the source carried the suffix.
C6_SuffixNormalized ==
    /\ (IsSome(line) /\ HasKey(Unwrap(line), STR_BOOT2)) =>
          /\ IsSome(elf_path)
          /\ LET v == ValueText(Unwrap(line))
             IN  IF EndsWith(v, STR_SUFFIX)
                 THEN Unwrap(elf_path) \o STR_SUFFIX = v
                 ELSE Unwrap(elf_path) = v
    /\ IsSome(out) =>
          IsPrefix(STR_BOOT2 \o STR_SEP \o Result.val.elf_path
                       \o STR_SUFFIX \o CRLF,
                   Unwrap(out))

\* the BOOT2 line taken last had no suffix to strip, and the output has one
C6_Witness ==
    /\ IsSome(out)
    /\ HasKey(Unwrap(line), STR_BOOT2)
    /\ ~EndsWith(ValueText(Unwrap(line)), STR_SUFFIX)
    /\ Result.val.elf_path = ValueText(Unwrap(line))
    /\ IsPrefix(STR_BOOT2 \o STR_SEP \o ValueText(Unwrap(line)) \o STR_SUFFIX,
                Unwrap(out))

(***************************************************************************)
(* C7  Video mode names                                                    *)
(***************************************************************************)
\* C7: from_str accepts the value of a VMODE line exactly when it trims to
\* NTSC or PAL, and the mode it returns has that name; any other value makes
\* parse return UnknownVideoMode; as_str and from_str undo one another on the
\* two names and the two variants.
C7_VideoModeBijection ==
    /\ \A n \in ModeNames : from_str(n).ok /\ as_str(from_str(n).val) = n
    /\ \A v \in VideoMode : from_str(as_str(v)) = Ok(v)
    /\ (IsSome(line) /\ HasKey(Unwrap(line), STR_VMODE)) =>
          IF ValueText(Unwrap(line)) \in ModeNames
          THEN /\ from_str(RawValue(Unwrap(line))).ok
               /\ IsSome(video_mode)
               /\ as_str(Unwrap(video_mode)) = ValueText(Unwrap(line))
               /\ ret # Some(Err(UnknownVideoMode))
          ELSE /\ from_str(RawValue(Unwrap(line))) = Err(UnknownVideoMode)
               /\ ret = Some(Err(UnknownVideoMode))

\* a padded name has been accepted
C7_Witness ==
    /\ IsSome(line)
    /\ HasKey(Unwrap(line), STR_VMODE)
    /\ RawValue(Unwrap(line)) # ValueText(Unwrap(line))
    /\ video_mode = Some(Ntsc)
    /\ pc = "formatted"

(***************************************************************************)
(* C8  The first error                                                     *)
(***************************************************************************)
\* C8: when parse has returned and some line is offending, the result is the
\* error of the first offending line, that line is the last one taken and
\* the lines after it are still in the iterator; when no line is offending,
\* every line has been taken and the result is a record or MissingField; an
\* error carries no record.
C8_FirstError ==
    Returned =>
        LET all == AllLines
            offending == { i \in 1..Len(all) : Offending(all[i]) }
        IN  /\ IF offending # {}
               THEN LET i == Least(offending)
                    IN  /\ Result = Err(IF HasEq(all[i]) THEN UnknownVideoMode
                                        ELSE MalformedFile)
                        /\ line = Some(all[i])
                        /\ lines = SubSeq(all, i + 1, Len(all))
               ELSE /\ Result.ok \/ Result = Err(MissingField)
                    /\ lines = <<>>
            /\ ~Result.ok => DOMAIN Result = {"ok", "err"}

\* parse returned on a bad video mode with a line without "=" still to come
C8_Witness ==
    /\ ret = Some(Err(UnknownVideoMode))
    /\ Taken >= 2
    /\ \E i \in 1..Len(lines) : ~HasEq(lines[i])

(***************************************************************************)
(* C9  A second "="                                                        *)
(***************************************************************************)
\* C9: after a line with two or more "=" is taken, the field of its key holds
\* the trimmed text between the first and the second "=" (for BOOT2 less a
\* ";1" that ends that text), and the line has raised no error.
C9_SecondSeparatorCuts ==
    (IsSome(line) /\ Cardinality(EqPositions(Unwrap(line))) >= 2) =>
        LET l == Unwrap(line)
            i == FirstEq(l)
            j == Least(EqPositions(l) \ {i})
            v == Trim(SubSeq(l, i + 1, j - 1))
        IN  /\ KeyText(l) = STR_BOOT2 =>
                 elf_path = Some(IF EndsWith(v, STR_SUFFIX)
                                 THEN SubSeq(v, 1, Len(v) - Len(STR_SUFFIX))
                                 ELSE v)
            /\ KeyText(l) = STR_VER => version = Some(v)
            /\ KeyText(l) = STR_HDDUNITPOWER => hdd_unit_power = Some(v)
            /\ KeyText(l) # STR_VMODE =>
                 \/ ~Returned
                 \/ Result.ok
                 \/ Result = Err(MissingField)

\* a BOOT2 line whose ";1" comes after the second "=" gave a path that was
\* not stripped, and a record was returned
C9_Witness ==
    /\ IsSome(line)
    /\ Cardinality(EqPositions(Unwrap(line))) >= 2
    /\ HasKey(Unwrap(line), STR_BOOT2)
    /\ EndsWith(Unwrap(line), STR_SUFFIX)
    /\ elf_path = Some(ValueText(Unwrap(line)))
    /\ Returned
    /\ Result.ok

(***************************************************************************)
(* C10  Parsing the output again                                           *)
(***************************************************************************)
\* C10: parsing the output of to_string returns the record it was made from.
C10_ReparseIsSame ==
    IsSome(out) => parse(Unwrap(out)) = Result

\* the text was not canonical: its BOOT2 line is not the first, a key comes
\* twice or is unknown, and the output differs from it
C10_Witness ==
    /\ IsSome(out)
    /\ Unwrap(out) # raw_cnf
    /\ LET all == AllLines
       IN  /\ ~HasKey(all[1], STR_BOOT2)
           /\ Len(all) > Cardinality(KeysOf(all) \cap KnownKeys)

====
